---------------------------- MODULE Spec2Model ----------------------------
(***************************************************************************)
(* A model of the scrumban reports utility: the burnup pipeline            *)
(* (reports/burnup_report.py), the time-tracking reports                   *)
(* (reports/toggl_reports.py) and the orchestrator (run_reports.py).       *)
(*                                                                         *)
(* Dates are <<year, month, day>> triples.  A key of burnup_data.json is   *)
(* the zero-padded string YYYY-MM-DD, whose string order is the            *)
(* lexicographic order of the triple.  Day numbers are days since          *)
(* 1970-01-01, the epoch of matplotlib's date2num.  The least-squares fit  *)
(* is kept as an exact rational (numerators over one denominator); the     *)
(* code computes it in floating point.                                     *)
(***************************************************************************)
EXTENDS Integers, Sequences, FiniteSets, TLC

VARIABLES
    burnup_file,    \* burnup_data.json: [exists, complete, entries]
    prior_file,     \* burnup_data.json as it was before the latest call
    last,           \* the latest call on the burnup module and its outcome
    stats,          \* the dataframe get_burnup_stats returned, if any
    chart,          \* what render_burnup_chart drew and saved, if anything
    all_ok,         \* history: no update_burnup_data has failed so far
    initial_file,   \* history, kept while all_ok: burnup_data.json at the start
    upserted,       \* history, kept while all_ok: per date, the latest upsert
    pc,             \* position of main()
    today,          \* the clock's day number
    runs,           \* invocations of main() so far
    trace,          \* steps of generate_burnup_chart completed in this run
    fetched,        \* counts fetched in this run
    run_start_file, \* burnup_data.json when this run started
    burnup_failed,  \* an exception left generate_burnup_chart in this run
    uidx,           \* position of user_weekly_report's loop
    folders,        \* users whose report folder exists
    detail_tried,   \* users whose detail download was attempted in this run
    summary_tried,  \* users whose summary download was attempted in this run
    failed_users,   \* users whose processing raised in this run
    users_invoked,  \* user_weekly_report was called in this run
    team_invoked,   \* team_weekly_report was called in this run
    team_answer,    \* what getSummaryReport answered in this run
    team_log,       \* sections appended to the team log
    logged,         \* errors logged in this run
    ann_n,          \* annotation loop: number of points
    ann_i,          \* annotation loop: loop variable i
    ann_labels,     \* annotation loop: labels drawn so far
    ann_pc          \* annotation loop: position

histVars == <<initial_file, upserted, all_ok>>
storeVars == <<burnup_file, prior_file, last, stats, chart, histVars>>
mainVars == <<pc, today, runs, trace, fetched, run_start_file, burnup_failed>>
reportVars == <<uidx, folders, detail_tried, summary_tried, failed_users,
                users_invoked, team_invoked, team_answer, team_log, logged>>
annVars == <<ann_n, ann_i, ann_labels, ann_pc>>
vars == <<storeVars, mainVars, reportVars, annVars>>

-----------------------------------------------------------------------------
(* Bounds of the model *)

\* Weekly dates tried as keys on direct calls, starting at FirstDay.
NumWeeks == 3
\* Weekly dates the clock can show to main(), starting a week after FirstDay.
RunWeeks == 2
\* Largest regression window tried on a direct call of render_burnup_chart.
MaxWindow == 4
\* Invocations of main() in one behaviour.
MaxRuns == 2
\* Configured toggl users.
NumUsers == 2
\* Longest series the annotation loop is run on.
MaxPoints == 20
\* Team totals tried, in half minutes.
MaxHalfMinutes == 250

\* regression_amount's default, the value main() always receives.
regression_amount == 4

Min(a, b) == IF a < b THEN a ELSE b
Max(a, b) == IF a > b THEN a ELSE b

-----------------------------------------------------------------------------
(* Dates: strftime('%Y-%m-%d') of a time stamp, strptime, date2num, num2date *)

\* Day number of a civil date (proleptic Gregorian, days since 1970-01-01).
DaysFromCivil(date) ==
    LET y0 == date[1]
        m == date[2]
        d == date[3]
        y == IF m <= 2 THEN y0 - 1 ELSE y0
        era == y \div 400
        yoe == y - era * 400
        mp == IF m > 2 THEN m - 3 ELSE m + 9
        doy == (153 * mp + 2) \div 5 + d - 1
        doe == yoe * 365 + yoe \div 4 - yoe \div 100 + doy
    IN era * 146097 + doe - 719468

\* Civil date of a day number.
CivilFromDays(z0) ==
    LET z == z0 + 719468
        era == z \div 146097
        doe == z - era * 146097
        yoe == (doe - doe \div 1460 + doe \div 36524 - doe \div 146096) \div 365
        doy == doe - (365 * yoe + yoe \div 4 - yoe \div 100)
        mp == (5 * doy + 2) \div 153
        d == doy - (153 * mp + 2) \div 5 + 1
        m == IF mp < 10 THEN mp + 3 ELSE mp - 9
        y == yoe + era * 400
    IN <<IF m <= 2 THEN y + 1 ELSE y, m, d>>

\* get_timestamp(): the current date formatted YYYY-MM-DD.
get_timestamp(now) == CivilFromDays(now)

\* mdates.date2num of the datetime strptime(key, "%Y-%m-%d") gives.
Date2Num(date) == DaysFromCivil(date)

\* Order of two keys as Python compares the strings.
DateLess(a, b) ==
    \/ a[1] < b[1]
    \/ a[1] = b[1] /\ a[2] < b[2]
    \/ a[1] = b[1] /\ a[2] = b[2] /\ a[3] < b[3]

\* The first day of the model: 2023-12-25.
FirstDay == DaysFromCivil(<<2023, 12, 25>>)
Dates == {get_timestamp(FirstDay + 7 * k) : k \in 0..(NumWeeks - 1)}
\* The days main() is run on: 2024-01-01, 2024-01-08, ...
Days == {FirstDay + 7 * k : k \in 1..RunWeeks}

\* Counts the board can report (len() of the done list, of all cards).
DoneCounts == {0, 2, 5}
TotalCounts == {10, 12}
\* (cards_done, cards_total) pairs tried on direct calls of the burnup module.
Snapshots == {<<0, 10>>, <<2, 10>>, <<5, 12>>}
\* The pairs found in the documents a behaviour starts from.
StoredSnapshots == {<<2, 10>>}

-----------------------------------------------------------------------------
(* burnup_data.json *)

Missing == [exists |-> FALSE, complete |-> FALSE, entries |-> <<>>]
\* The document "{}".
EmptyDoc == [exists |-> TRUE, complete |-> TRUE, entries |-> <<>>]

Entry(date, cards_done, cards_total) ==
    [date |-> date, cards_done |-> cards_done, cards_total |-> cards_total]

RECURSIVE InsertSorted(_, _)
InsertSorted(e, s) ==
    IF s = <<>> THEN <<e>>
    ELSE IF DateLess(e.date, Head(s).date) THEN <<e>> \o s
    ELSE <<Head(s)>> \o InsertSorted(e, Tail(s))

\* sorted(keys) / sort_keys=True: the entries in increasing key order.
RECURSIVE SortByDate(_)
SortByDate(s) ==
    IF s = <<>> THEN <<>> ELSE InsertSorted(Head(s), SortByDate(Tail(s)))

\* load_burnup_data, lines 144-146: a missing file is created as "{}".
LoadCreates(file) == IF file.exists THEN file ELSE EmptyDoc

\* json.load accepts the document: a truncated document raises.
Parses(file) == file.exists /\ file.complete

\* load_burnup_data's result on a document json.load accepts: the dict, in
\* the order of the document's keys.
load_burnup_data(file) == file.entries

DictKeys(dict) == {dict[i].date : i \in 1..Len(dict)}

\* burnup_data = {timestamp: data}: the other dates are dropped.
DictSetOnly(dict, e) == <<e>>

\* burnup_data[timestamp] = data: replaces the value of an existing key in
\* place, appends a new key.
DictSet(dict, e) ==
    IF e.date \in DictKeys(dict)
    THEN [i \in 1..Len(dict) |-> IF dict[i].date = e.date THEN e ELSE dict[i]]
    ELSE Append(dict, e)

\* json.dump(burnup_data, f, indent=2, sort_keys=True), written in full.
JsonDump(dict) ==
    [exists |-> TRUE, complete |-> TRUE, entries |-> SortByDate(dict)]

\* What open(..., "w") followed by a write that stops early leaves: the
\* file truncated to a prefix of the document, the closing brace unwritten.
Truncated(doc) ==
    {[exists |-> TRUE, complete |-> FALSE, entries |-> SubSeq(doc.entries, 1, k)] :
        k \in 0..Len(doc.entries)}

NoCall == [op |-> "none", ok |-> TRUE, done |-> 0, total |-> 0,
           ts |-> <<0, 0, 0>>, window |-> 0]
CallRec(op, ok, d, t, ts, w) ==
    [op |-> op, ok |-> ok, done |-> d, total |-> t, ts |-> ts, window |-> w]

NoStats == [kind |-> "none", rows |-> <<>>]
NoChart == [kind |-> "none"]

\* Lines 98-99 on the document f1 that was loaded: the write completes, open
\* raises and leaves f1, or the write stops after open truncated the file.
UpdateWrites(f1, newdoc) ==
    {[file |-> newdoc, ok |-> TRUE], [file |-> f1, ok |-> FALSE]}
      \cup {[file |-> f, ok |-> FALSE] : f \in Truncated(newdoc)}

\* update_burnup_data(cards_done, cards_total, timestamp): every outcome,
\* as [file, ok].
UpdateOutcomes(file, cards_done, cards_total, timestamp) ==
    LET f1 == LoadCreates(file)
    IN IF ~Parses(f1)
       THEN {[file |-> f1, ok |-> FALSE]}
       ELSE UpdateWrites(f1, JsonDump(DictSet(load_burnup_data(f1),
                                    Entry(timestamp, cards_done, cards_total))))

update_burnup_data(cards_done, cards_total, timestamp) ==
    \E out \in UpdateOutcomes(burnup_file, cards_done, cards_total, timestamp) :
        /\ burnup_file' = out.file
        /\ prior_file' = burnup_file
        /\ last' = CallRec("update", out.ok, cards_done, cards_total, timestamp, 0)
        /\ stats' = NoStats
        /\ chart' = NoChart
        /\ all_ok' = (all_ok /\ out.ok)
        /\ upserted' = IF all_ok /\ out.ok
                       THEN {e \in upserted : e.date # timestamp}
                              \cup {Entry(timestamp, cards_done, cards_total)}
                       ELSE {}
        /\ initial_file' = IF all_ok /\ out.ok THEN initial_file ELSE Missing

-----------------------------------------------------------------------------
(* get_burnup_stats *)

RECURSIVE FrameRows(_, _)
\* Lines 122-128: one row per key of sorted_date_keys, in that order.
FrameRows(keys, dict) ==
    IF keys = <<>> THEN <<>>
    ELSE LET e == CHOOSE x \in {dict[i] : i \in 1..Len(dict)} : x.date = Head(keys).date
         IN <<[scope |-> e.cards_total, done |-> e.cards_done, dates |-> e.date]>>
              \o FrameRows(Tail(keys), dict)

\* A guard that lets an empty dict through.
TooFewSnapshotsLoose(dict) == Len(dict) < 0

\* Line 112: the guard on an empty dict.
TooFewSnapshots(dict) == Len(dict) < 1

\* get_burnup_stats() on a document: [file, stats].  The stats are a
\* dataframe, or the exception raised.
StatsOutcome(file) ==
    LET f1 == LoadCreates(file)
        dict == load_burnup_data(f1)
    IN IF ~Parses(f1)
       THEN [file |-> f1, stats |-> [kind |-> "JSONDecodeError", rows |-> <<>>]]
       ELSE IF TooFewSnapshots(dict)
       THEN [file |-> f1, stats |-> [kind |-> "ValueError", rows |-> <<>>]]
       ELSE [file |-> f1,
             stats |-> [kind |-> "frame", rows |-> FrameRows(SortByDate(dict), dict)]]

get_burnup_stats ==
    LET out == StatsOutcome(burnup_file)
    IN /\ burnup_file' = out.file
       /\ prior_file' = burnup_file
       /\ stats' = out.stats
       /\ last' = CallRec("stats", out.stats.kind = "frame", 0, 0, <<0, 0, 0>>, 0)
       /\ chart' = NoChart
       /\ UNCHANGED histVars

-----------------------------------------------------------------------------
(* render_burnup_chart *)

\* Sizes of the last point's label and of the other labels.
LargeLabel == 18
SmallLabel == 13

\* Python's s[:k], the leading slice.
HeadSlice(s, k) == SubSeq(s, 1, Min(k, Len(s)))

\* Python's s[-k:].
TailSlice(s, k) ==
    LET start0 == 0 - k
        start == IF start0 < 0 THEN Max(start0 + Len(s), 0) ELSE Min(start0, Len(s))
    IN SubSeq(s, start + 1, Len(s))

RECURSIVE SumSeq(_)
SumSeq(s) == IF s = <<>> THEN 0 ELSE Head(s) + SumSeq(Tail(s))

\* np.polyfit(xs, ys, 1): the least-squares line y = (a*x + b) / den.
\* When all xs are equal (or there is one point) the system is rank
\* deficient.  polyfit divides each column of the Vandermonde matrix by its
\* norm before solving: with xs all 0 that is 0/0 and lstsq raises; with
\* xs all c # 0 the two scaled columns are equal and lstsq returns the
\* minimum-norm solution, slope mean(ys)/(2c) and intercept mean(ys)/2.
PolyFit(xs, ys) ==
    LET n == Len(xs)
        Sx == SumSeq(xs)
        Sy == SumSeq(ys)
        Sxx == SumSeq([i \in 1..n |-> xs[i] * xs[i]])
        Sxy == SumSeq([i \in 1..n |-> xs[i] * ys[i]])
        D == n * Sxx - Sx * Sx
        N == n * Sxy - Sx * Sy
    IN IF D # 0
       THEN [raises |-> FALSE, a |-> n * N, b |-> Sy * D - N * Sx, den |-> n * D]
       ELSE IF xs[1] = 0
       THEN [raises |-> TRUE, a |-> 0, b |-> 0, den |-> 1]
       ELSE [raises |-> FALSE, a |-> Sy, b |-> Sy * xs[1], den |-> 2 * xs[1] * n]

\* fit_func(x), as the rational num/den.
FitAt(fit, x) == [num |-> fit.a * x + fit.b, den |-> fit.den]

\* mdates.num2date accepts the value: a date of the years 1 to 9999.
NumToDateOK(q) ==
    LET day == q.num \div q.den
    IN DaysFromCivil(<<1, 1, 1>>) <= day /\ day <= DaysFromCivil(<<9999, 12, 31>>)

\* Lines 222-224.
JumpNum(n) == IF n > 5 THEN n \div 5 ELSE 1

\* A loop that labels every index of the stride, and the last point when
\* the stride runs out.
AnnotateStepStride(n, i, labels) ==
    LET K == JumpNum(n)
    IN [i |-> i + K, done |-> i + K >= n,
        labels |-> labels \cup {[index |-> i,
                      size |-> IF i = n - 1 THEN LargeLabel ELSE SmallLabel]}
                      \cup (IF i + K >= n THEN {[index |-> n - 1, size |-> LargeLabel]} ELSE {})]

\* One pass of the loop of lines 226-245 at loop variable i (0-based).
AnnotateStep(n, i, labels) ==
    LET K == JumpNum(n)
    IN IF i + K > n - 1
       THEN [i |-> i, done |-> TRUE,
             labels |-> labels \cup {[index |-> n - 1, size |-> LargeLabel]}]
       ELSE [i |-> i + K, done |-> i + K >= n,
             labels |-> labels \cup {[index |-> i, size |-> SmallLabel]}]

RECURSIVE AnnotateFrom(_, _, _)
AnnotateFrom(n, i, labels) ==
    LET r == AnnotateStep(n, i, labels)
    IN IF r.done THEN r.labels ELSE AnnotateFrom(n, r.i, r.labels)

\* The labels the loop draws on a series of n points.
Annotations(n) == IF n < 1 THEN {} ELSE AnnotateFrom(n, 0, {})

\* Lines 249-260: the tick interval, in quarter days.
TickQuarters(rows) ==
    LET n == Len(rows)
        days_between == Date2Num(rows[n].dates) - Date2Num(rows[1].dates)
    IN IF n > 1
       THEN IF days_between > 32 THEN days_between ELSE 2 * days_between
       ELSE 4 * 1200

\* Line 170: whether the best fit line is drawn.
DrawsTrend(n) == n > 1

\* The scope of the first snapshot.
CurrScopeFirst(rows) == rows[1].scope

\* Line 176: the scope the fit is evaluated at.
CurrScope(rows) == rows[Len(rows)].scope

\* render_burnup_chart(stats_df, save_loc, regression_amount) at time now:
\* every outcome, a saved chart or the exception raised.
RenderOutcomes(rows, R, now) ==
    LET n == Len(rows)
        stats_dates == [i \in 1..n |-> Date2Num(rows[i].dates)]
        stats_done == [i \in 1..n |-> rows[i].done]
        xs == TailSlice(stats_done, R)
        ys == TailSlice(stats_dates, R)
        fit == PolyFit(xs, ys)
        curr_scope == CurrScope(rows)
        curr_done == rows[n].done
        curr_date == rows[n].dates
        finish == FitAt(fit, curr_scope)
        base == [kind |-> "chart", points |-> rows, labels |-> Annotations(n),
                 ticks |-> TickQuarters(rows), title |-> get_timestamp(now),
                 file |-> get_timestamp(now)]
        plain == base @@ [trend |-> FALSE, window |-> <<>>,
                          fit |-> [raises |-> FALSE, a |-> 0, b |-> 0, den |-> 1],
                          finish |-> [num |-> 0, den |-> 1],
                          fit_line |-> <<>>, cont_line |-> <<>>, finish_text |-> <<>>]
        drawn == base @@ [trend |-> TRUE,
                          window |-> [i \in 1..Len(xs) |-> [done |-> xs[i], date |-> ys[i]]],
                          fit |-> fit, finish |-> finish,
                          fit_line |-> <<[date |-> [num |-> Date2Num(curr_date), den |-> 1],
                                          y |-> curr_done],
                                         [date |-> finish, y |-> curr_scope]>>,
                          cont_line |-> <<[date |-> [num |-> Date2Num(curr_date), den |-> 1],
                                           y |-> curr_scope],
                                          [date |-> finish, y |-> curr_scope]>>,
                          finish_text |-> <<CivilFromDays(finish.num \div finish.den)>>]
    IN IF ~DrawsTrend(n) THEN {plain}
       ELSE IF fit.raises \/ ~NumToDateOK(finish) THEN {[kind |-> "error"]}
       ELSE {drawn}

render_burnup_chart(rows, R, now) ==
    \E c \in RenderOutcomes(rows, R, now) :
        /\ chart' = c
        /\ last' = CallRec("render", c.kind = "chart", 0, 0, <<0, 0, 0>>, R)
        /\ prior_file' = burnup_file
        /\ UNCHANGED <<burnup_file, stats, histVars>>

-----------------------------------------------------------------------------
(* The burnup module called directly: any stored document, any arguments *)

NoAnswer == [kind |-> "none", ms |-> 0]

RECURSIVE DocsOver(_)
\* Every key-sorted sequence of entries over the given keys (sorted).
DocsOver(keys) ==
    IF keys = <<>> THEN {<<>>}
    ELSE LET rest == DocsOver(Tail(keys))
         IN rest \cup {<<Entry(Head(keys), c[1], c[2])>> \o r : c \in StoredSnapshots, r \in rest}

RECURSIVE SetToSortedSeq(_)
SetToSortedSeq(S) ==
    IF S = {} THEN <<>>
    ELSE LET m == CHOOSE x \in S : \A y \in S \ {x} : DateLess(x, y)
         IN <<m>> \o SetToSortedSeq(S \ {m})

\* The documents the program can have written, or none yet.
StoredFiles ==
    {Missing} \cup {[exists |-> TRUE, complete |-> TRUE, entries |-> e] :
                      e \in DocsOver(SetToSortedSeq(Dates))}

IdleMain ==
    /\ pc = "api" /\ today = FirstDay /\ runs = 0 /\ trace = <<>>
    /\ fetched = [done |-> 0, total |-> 0]
    /\ run_start_file = Missing /\ burnup_failed = FALSE
IdleReports ==
    /\ uidx = 0 /\ folders = {} /\ detail_tried = {} /\ summary_tried = {}
    /\ failed_users = {} /\ users_invoked = FALSE /\ team_invoked = FALSE
    /\ team_answer = NoAnswer /\ team_log = <<>> /\ logged = <<>>
IdleAnnotate ==
    /\ ann_n = 0 /\ ann_i = 0 /\ ann_labels = {} /\ ann_pc = "idle"
IdleStore ==
    /\ prior_file = burnup_file /\ last = NoCall /\ stats = NoStats /\ chart = NoChart
    /\ initial_file = burnup_file /\ upserted = {} /\ all_ok = TRUE

InitStore ==
    /\ burnup_file \in StoredFiles
    /\ IdleStore
    /\ IdleMain /\ IdleReports /\ IdleAnnotate

CallUpdate ==
    /\ \E c \in Snapshots, ts \in Dates : update_burnup_data(c[1], c[2], ts)
    /\ UNCHANGED <<mainVars, reportVars, annVars>>

CallStats ==
    /\ get_burnup_stats
    /\ UNCHANGED <<mainVars, reportVars, annVars>>

CallRender ==
    /\ stats.kind = "frame"
    /\ \E R \in 1..MaxWindow : render_burnup_chart(stats.rows, R, today)
    /\ UNCHANGED <<mainVars, reportVars, annVars>>

NextStore == CallUpdate \/ CallStats \/ CallRender

SpecStore == InitStore /\ [][NextStore]_vars

-----------------------------------------------------------------------------
(* toggl_reports.py *)

Users == 1..NumUsers

\* One pass of the loop of user_weekly_report, lines 36-61, for the user at
\* position u of the users dict: every outcome.  raised: the exception left
\* the loop (it was not caught by the try of lines 55-61).
UserPassOutcomes(u, have) ==
    LET base == [folders |-> have, detail |-> FALSE, summary |-> FALSE,
                 failed |-> FALSE, raised |-> FALSE, log |-> <<>>]
        made == [base EXCEPT !.folders = have \cup {u}]
        \* Lines 48-50: makedirs(folder) raises.
        nofolder == IF u \in have THEN {}
                    ELSE {[base EXCEPT !.failed = TRUE, !.raised = TRUE]}
        \* Line 56 raises: caught, logged.
        nodetail == [made EXCEPT !.detail = TRUE, !.failed = TRUE,
                                 !.log = <<"user report error">>]
        \* Line 58 raises: caught, logged.
        nosummary == [made EXCEPT !.detail = TRUE, !.summary = TRUE, !.failed = TRUE,
                                  !.log = <<"user report error">>]
        both == [made EXCEPT !.detail = TRUE, !.summary = TRUE]
    IN nofolder \cup {nodetail, nosummary, both}

\* {:.0f} of a non-negative value num/den: to the nearest integer, a tie to
\* the even one.
RoundHalfEven(num, den) ==
    LET q == num \div den
        r == num % den
    IN IF 2 * r > den THEN q + 1
       ELSE IF 2 * r < den THEN q
       ELSE IF q % 2 = 0 THEN q ELSE q + 1

NoHours == [kind |-> "none", hours |-> 0, minutes |-> 0]

\* Lines 81-86: time_str for result['total_grand'] = total_ms.
\* divmod(total_ms / 1000 / 60, 60) gives the whole hours and the remaining
\* minutes as a float in [0, 60); both are printed with {:.0f}.
TimeStr(total_ms) ==
    IF total_ms = 0 THEN NoHours
    ELSE [kind |-> "hm",
          hours |-> RoundHalfEven(total_ms \div 3600000, 1),
          minutes |-> RoundHalfEven(total_ms % 3600000, 60000)]

\* The answers getSummaryReport can give: an exception, a result without
\* total_grand, with total_grand null, or with a number of milliseconds.
TeamResults(halfMinutes) ==
    {[kind |-> k, ms |-> 0] : k \in {"raises", "absent", "null"}}
      \cup {[kind |-> "ms", ms |-> 30000 * h] : h \in halfMinutes}

\* team_weekly_report on the provider's answer r: [raised, log, section].
TeamOutcome(r) ==
    IF r.kind = "raises"
    \* Lines 76-78: logged, return.
    THEN [raised |-> FALSE, log |-> <<"team report error">>, section |-> <<>>]
    ELSE IF r.kind = "absent"
    \* Line 81: KeyError, not caught here.
    THEN [raised |-> TRUE, log |-> <<>>, section |-> <<>>]
    ELSE [raised |-> FALSE, log |-> <<>>,
          section |-> <<IF r.kind = "null" THEN NoHours ELSE TimeStr(r.ms)>>]

-----------------------------------------------------------------------------
(* run_reports.py: main() *)

\* The calls of generate_burnup_chart, lines 26-40, in order.
BurnupSteps == <<"get_cards_done", "get_cards_total", "update_burnup_data",
                 "get_burnup_stats", "render_burnup_chart">>

\* Where main() stands after a step of the try block returned.
StepAfter(step) ==
    CASE step = "env" -> "get_cards_done"
      [] step = "get_cards_done" -> "get_cards_total"
      [] step = "get_cards_total" -> "update_burnup_data"
      [] step = "update_burnup_data" -> "get_burnup_stats"
      [] step = "get_burnup_stats" -> "render_burnup_chart"
      [] step = "render_burnup_chart" -> "user_weekly_report"
      [] step = "user_weekly_report" -> "team_weekly_report"
      [] step = "team_weekly_report" -> "done"

\* An exception that is swallowed: the run goes on with the next step.
RaiseSwallowed(step) == StepAfter(step)

\* Where main() stands after a step of the try block raised: the except
\* clause of line 72.
Raise(step) == "except"

InitMain ==
    /\ burnup_file \in {Missing, EmptyDoc}
    /\ IdleStore
    /\ pc = "idle" /\ today = FirstDay /\ runs = 0 /\ trace = <<>>
    /\ fetched = [done |-> 0, total |-> 0]
    /\ run_start_file = Missing /\ burnup_failed = FALSE
    /\ IdleReports /\ IdleAnnotate

\* The program is started: a new process, on the same day or a later one.
StartRun ==
    /\ pc \in {"idle", "done"}
    /\ runs < MaxRuns
    /\ \E day \in Days : day >= today /\ today' = day
    /\ pc' = "env"
    /\ runs' = runs + 1
    /\ trace' = <<>>
    /\ fetched' = [done |-> 0, total |-> 0]
    /\ run_start_file' = burnup_file
    /\ burnup_failed' = FALSE
    /\ prior_file' = burnup_file /\ last' = NoCall /\ stats' = NoStats /\ chart' = NoChart
    /\ uidx' = 0 /\ detail_tried' = {} /\ summary_tried' = {} /\ failed_users' = {}
    /\ users_invoked' = FALSE /\ team_invoked' = FALSE /\ logged' = <<>>
    /\ team_answer' = NoAnswer
    /\ UNCHANGED <<burnup_file, histVars, folders, team_log, annVars>>

\* Lines 53-58: .env is read, or OSError is raised.
LoadEnv ==
    /\ pc = "env"
    /\ \E ok \in BOOLEAN : pc' = IF ok THEN StepAfter("env") ELSE Raise("env")
    /\ UNCHANGED <<storeVars, today, runs, trace, fetched, run_start_file, burnup_failed,
                   reportVars, annVars>>

\* Line 26: get_cards_done returns a count, or raises (the request fails,
\* the answer is no JSON, no list has the name).
GetCardsDone ==
    /\ pc = "get_cards_done"
    /\ \/ \E d \in DoneCounts :
            /\ fetched' = [fetched EXCEPT !.done = d]
            /\ trace' = Append(trace, "get_cards_done")
            /\ pc' = StepAfter("get_cards_done")
            /\ UNCHANGED burnup_failed
       \/ /\ pc' = Raise("get_cards_done")
          /\ burnup_failed' = TRUE
          /\ UNCHANGED <<fetched, trace>>
    /\ UNCHANGED <<storeVars, today, runs, run_start_file, reportVars, annVars>>

\* Line 27: get_cards_total returns a count, or raises.
GetCardsTotal ==
    /\ pc = "get_cards_total"
    /\ \/ \E t \in TotalCounts :
            /\ fetched' = [fetched EXCEPT !.total = t]
            /\ trace' = Append(trace, "get_cards_total")
            /\ pc' = StepAfter("get_cards_total")
            /\ UNCHANGED burnup_failed
       \/ /\ pc' = Raise("get_cards_total")
          /\ burnup_failed' = TRUE
          /\ UNCHANGED <<fetched, trace>>
    /\ UNCHANGED <<storeVars, today, runs, run_start_file, reportVars, annVars>>

\* What a step of generate_burnup_chart that set last' leaves of main().
BurnupStepDone(step) ==
    /\ pc' = IF last'.ok THEN StepAfter(step) ELSE Raise(step)
    /\ trace' = IF last'.ok THEN Append(trace, step) ELSE trace
    /\ burnup_failed' = ~last'.ok
    /\ UNCHANGED <<today, runs, fetched, run_start_file, reportVars, annVars>>

\* Lines 28-32.
UpdateStep ==
    /\ pc = "update_burnup_data"
    /\ update_burnup_data(fetched.done, fetched.total, get_timestamp(today))
    /\ BurnupStepDone("update_burnup_data")

\* Line 36.
StatsStep ==
    /\ pc = "get_burnup_stats"
    /\ get_burnup_stats
    /\ BurnupStepDone("get_burnup_stats")

\* Line 40.
RenderStep ==
    /\ pc = "render_burnup_chart"
    /\ render_burnup_chart(stats.rows, regression_amount, today)
    /\ BurnupStepDone("render_burnup_chart")

\* Lines 65-66: user_weekly_report, one pass of its loop per step.
UserPass ==
    /\ pc = "user_weekly_report"
    /\ uidx < NumUsers
    /\ \E o \in UserPassOutcomes(uidx + 1, folders) :
          /\ folders' = o.folders
          /\ detail_tried' = IF o.detail THEN detail_tried \cup {uidx + 1} ELSE detail_tried
          /\ summary_tried' = IF o.summary THEN summary_tried \cup {uidx + 1} ELSE summary_tried
          /\ failed_users' = IF o.failed THEN failed_users \cup {uidx + 1} ELSE failed_users
          /\ logged' = logged \o o.log
          /\ pc' = IF o.raised THEN Raise("user_weekly_report") ELSE pc
    /\ uidx' = uidx + 1
    /\ users_invoked' = TRUE
    /\ UNCHANGED <<storeVars, today, runs, trace, fetched, run_start_file, burnup_failed,
                   team_invoked, team_answer, team_log, annVars>>

\* The loop is over: user_weekly_report returns.
UsersReturn ==
    /\ pc = "user_weekly_report"
    /\ uidx = NumUsers
    /\ pc' = StepAfter("user_weekly_report")
    /\ users_invoked' = TRUE
    /\ UNCHANGED <<storeVars, today, runs, trace, fetched, run_start_file, burnup_failed,
                   uidx, folders, detail_tried, summary_tried, failed_users,
                   team_invoked, team_answer, team_log, logged, annVars>>

\* team_weekly_report on one of the provider's answers.
team_weekly_report(results) ==
    \E r \in results :
        LET o == TeamOutcome(r)
        IN /\ team_invoked' = TRUE
           /\ team_answer' = r
           /\ team_log' = team_log \o o.section
           /\ logged' = logged \o o.log
           /\ pc' = IF o.raised THEN Raise("team_weekly_report")
                    ELSE StepAfter("team_weekly_report")

\* Lines 69-70.
TeamStep ==
    /\ pc = "team_weekly_report"
    /\ team_weekly_report(TeamResults({180}))
    /\ UNCHANGED <<storeVars, today, runs, trace, fetched, run_start_file, burnup_failed,
                   uidx, folders, detail_tried, summary_tried, failed_users,
                   users_invoked, annVars>>

\* Lines 72-73: the exception is logged with its stack trace; main returns.
Except ==
    /\ pc = "except"
    /\ logged' = Append(logged, "Report Generation Error")
    /\ pc' = "done"
    /\ UNCHANGED <<storeVars, today, runs, trace, fetched, run_start_file, burnup_failed,
                   uidx, folders, detail_tried, summary_tried, failed_users,
                   users_invoked, team_invoked, team_answer, team_log, annVars>>

NextMain ==
    \/ StartRun \/ LoadEnv \/ GetCardsDone \/ GetCardsTotal \/ UpdateStep
    \/ StatsStep \/ RenderStep \/ UserPass \/ UsersReturn \/ TeamStep \/ Except

SpecMain == InitMain /\ [][NextMain]_vars

Spec == SpecMain

-----------------------------------------------------------------------------
(* The annotation loop of render_burnup_chart, one pass per step *)

InitAnnotate ==
    /\ ann_n \in 1..MaxPoints /\ ann_i = 0 /\ ann_labels = {} /\ ann_pc = "loop"
    /\ burnup_file = Missing /\ IdleStore /\ IdleMain /\ IdleReports

AnnotatePass ==
    /\ ann_pc = "loop"
    /\ LET r == AnnotateStep(ann_n, ann_i, ann_labels)
       IN /\ ann_i' = r.i
          /\ ann_labels' = r.labels
          /\ ann_pc' = IF r.done THEN "done" ELSE "loop"
    /\ UNCHANGED <<ann_n, storeVars, mainVars, reportVars>>

NextAnnotate == AnnotatePass

SpecAnnotate == InitAnnotate /\ [][NextAnnotate]_vars

-----------------------------------------------------------------------------
(* team_weekly_report called once, on any answer of the provider *)

InitTeam ==
    /\ burnup_file = Missing /\ IdleStore /\ IdleMain /\ IdleReports /\ IdleAnnotate

CallTeam ==
    /\ pc = "api"
    /\ team_weekly_report(TeamResults(0..MaxHalfMinutes))
    /\ UNCHANGED <<storeVars, today, runs, trace, fetched, run_start_file, burnup_failed,
                   uidx, folders, detail_tried, summary_tried, failed_users,
                   users_invoked, annVars>>

NextTeam == CallTeam \/ Except

SpecTeam == InitTeam /\ [][NextTeam]_vars

-----------------------------------------------------------------------------
(* Properties of the store, the statistics and the chart *)

Range(seq) == {seq[i] : i \in 1..Len(seq)}

\* What a load_burnup_data() would return on the document.
Loaded(file) == load_burnup_data(LoadCreates(file))
Loadable(file) == Parses(LoadCreates(file))

\* C2: when update_burnup_data fails or is interrupted, a later
\* load_burnup_data observes the complete new mapping or the complete prior
\* mapping, never a truncated document.
C2_AtomicPersist ==
    (last.op = "update" /\ ~last.ok /\ Loadable(prior_file)) =>
        /\ Loadable(burnup_file)
        /\ \/ Loaded(burnup_file) = Loaded(prior_file)
           \/ Loaded(burnup_file) =
                  JsonDump(DictSet(Loaded(prior_file),
                                   Entry(last.ts, last.done, last.total))).entries

\* C3: as long as every update_burnup_data so far succeeded, starting from
\* any stored document or none, load_burnup_data returns one entry per
\* date; each upserted date holds exactly the counts of its latest upsert;
\* every date of the initial document that was not upserted is there with
\* its initial counts; and no other date is there.  And each successful call
\* changes nothing but the entry of its date.
C3_LastWriteWins ==
    /\ (all_ok /\ Loadable(initial_file)) =>
          LET m == Loaded(burnup_file)
              kept == {e \in Range(Loaded(initial_file)) :
                          \A u \in upserted : u.date # e.date}
          IN /\ Loadable(burnup_file)
             /\ \A i, j \in 1..Len(m) : m[i].date = m[j].date => i = j
             /\ Range(m) = upserted \cup kept
    /\ (last.op = "update" /\ last.ok) =>
          LET m == Loaded(burnup_file)
              p == Loaded(prior_file)
          IN /\ Entry(last.ts, last.done, last.total) \in Range(m)
             /\ \A e \in Range(p) : e.date # last.ts => e \in Range(m)
             /\ \A e \in Range(m) : e.date # last.ts => e \in Range(p)

\* C3's case: a second successful upsert of a date, with other counts than
\* the first, after an upsert of another date, beside a date of the initial
\* document that was never upserted.
C3_Witness ==
    /\ all_ok /\ last.op = "update" /\ last.ok
    /\ Cardinality(upserted) = 2
    /\ \E e \in Range(Loaded(prior_file)) :
          /\ e.date = last.ts /\ e.cards_done # last.done
          /\ e \notin Range(Loaded(initial_file))
    /\ \E e \in Range(Loaded(initial_file)) : \A u \in upserted : u.date # e.date

C6_EstimateBySnapshotCount ==
    /\ (last.op = "stats" /\ Loadable(prior_file) /\ Len(Loaded(prior_file)) = 0) =>
           (stats.kind = "ValueError" /\ chart = NoChart /\ ~ENABLED CallRender)
    /\ (last.op = "stats" /\ Loadable(prior_file) /\ Len(Loaded(prior_file)) = 1) =>
           (stats.kind = "frame" /\ Len(stats.rows) = 1)
    /\ (last.op = "render" /\ Len(stats.rows) = 1) =>
           /\ chart.kind = "chart" /\ ~chart.trend
           /\ chart.fit_line = <<>> /\ chart.cont_line = <<>> /\ chart.finish_text = <<>>
    /\ (chart.kind = "chart" /\ chart.trend) =>
           (Len(stats.rows) >= 2 /\ Len(Loaded(burnup_file)) >= 2)

\* C6's case: a chart rendered from exactly one stored snapshot.
C6_Witness ==
    /\ last.op = "render" /\ Len(stats.rows) = 1 /\ chart.kind = "chart"
    /\ Len(Loaded(burnup_file)) = 1

-----------------------------------------------------------------------------
(* Properties of a run of main() *)

\* C1: when a run of main() is over and generate_burnup_chart raised in it,
\* user_weekly_report and team_weekly_report were still invoked in that run.
C1_BurnupFailureIsolated ==
    (pc = "done" /\ burnup_failed) => (users_invoked /\ team_invoked)

\* C4: when a run of main() in which user_weekly_report was invoked is over
\* and the processing of some user failed in it, then for every user after
\* the failing one the detail download was attempted, and the summary
\* download too unless that user failed itself, and team_weekly_report was
\* invoked.
C4_UserFailureSkipped ==
    (pc = "done" /\ users_invoked) =>
        \A u \in failed_users :
            /\ \A v \in Users :
                  v > u => (v \in detail_tried /\ (v \in summary_tried \/ v \in failed_users))
            /\ team_invoked

IsPrefix(a, b) == Len(a) <= Len(b) /\ a = SubSeq(b, 1, Len(a))

\* C10: the calls of generate_burnup_chart completed in a run are always an
\* initial part of: fetch done count, fetch total count, upsert, load and
\* statistics, render, and main() stands at a call only when all the calls
\* before it have completed; a run in which a fetch raised leaves
\* burnup_data.json as it was when the run started and saves no chart.
C10_StepOrder ==
    /\ IsPrefix(trace, BurnupSteps)
    /\ \A k \in 1..Len(BurnupSteps) : pc = BurnupSteps[k] => Len(trace) = k - 1
    /\ (last.op = "update") => Len(trace) >= 2
    /\ (chart.kind = "chart") => Len(trace) = Len(BurnupSteps)
    /\ (burnup_failed /\ Len(trace) < 2) =>
           (burnup_file = run_start_file /\ chart = NoChart /\ last = NoCall)

\* C10's case: the fetch of the total count raised, after the done count
\* was fetched, in a run that started with a stored snapshot.
C10_Witness ==
    /\ pc = "done" /\ burnup_failed /\ trace = <<"get_cards_done">>
    /\ Loadable(run_start_file) /\ Len(Loaded(run_start_file)) = 1

Jan1 == <<2024, 1, 1>>
Jan8 == <<2024, 1, 8>>
SameRational(q, num, den) == q.num * den = num * q.den

\* Run 1 of the scenario has reached its render: first run, empty store, 2 of 10 done
\* on 2024-01-01.
ScenarioRun1 ==
    /\ runs = 1 /\ Len(Loaded(run_start_file)) = 0
    /\ today = DaysFromCivil(Jan1) /\ fetched = [done |-> 2, total |-> 10]
    /\ last.op = "render"

\* Run 2 of the scenario has reached its render: second run, the store as run 1 left
\* it, 5 of 12 done on 2024-01-08.
ScenarioRun2 ==
    /\ runs = 2 /\ Loadable(run_start_file)
    /\ Loaded(run_start_file) = <<Entry(Jan1, 2, 10)>>
    /\ today = DaysFromCivil(Jan8) /\ fetched = [done |-> 5, total |-> 12]
    /\ last.op = "render"

\* C9: after run 1 the store holds one entry and the chart has no trend
\* line; after run 2 the store holds two entries, the fitted line passes
\* through (2, 2024-01-01) and (5, 2024-01-08), the finish date is the fit
\* at scope 12 (23 1/3 days after 2024-01-01, printed Jan 24), and the
\* dashed line runs from (2024-01-08, 5) to (finish date, 12).
C9_EndToEnd ==
    /\ ScenarioRun1 =>
          /\ Len(Loaded(burnup_file)) = 1
          /\ chart.kind = "chart" /\ ~chart.trend /\ chart.fit_line = <<>>
    /\ ScenarioRun2 =>
          /\ Loaded(burnup_file) = <<Entry(Jan1, 2, 10), Entry(Jan8, 5, 12)>>
          /\ chart.kind = "chart" /\ chart.trend
          /\ SameRational(FitAt(chart.fit, 2), DaysFromCivil(Jan1), 1)
          /\ SameRational(FitAt(chart.fit, 5), DaysFromCivil(Jan8), 1)
          /\ SameRational(chart.finish, 3 * DaysFromCivil(Jan1) + 70, 3)
          /\ chart.finish = FitAt(chart.fit, 12)
          /\ chart.finish_text = <<<<2024, 1, 24>>>>
          /\ Len(chart.fit_line) = 2
          /\ SameRational(chart.fit_line[1].date, DaysFromCivil(Jan8), 1)
          /\ chart.fit_line[1].y = 5
          /\ chart.fit_line[2] = [date |-> chart.finish, y |-> 12]

\* C9's case: run 2 of the scenario has rendered its chart.
C9_Witness == ScenarioRun2 /\ chart.kind = "chart"

-----------------------------------------------------------------------------
(* Properties of the annotation loop and of the team report *)

LabelledIndices == {l.index : l \in ann_labels}

\* C7 as stated: the labelled indices are every multiple of K below n
\* together with n-1, the label of n-1 the larger one, all others the
\* smaller one.
C7_EveryKthAndLast ==
    (ann_pc = "done") =>
        LET K == IF ann_n < 6 THEN 1 ELSE ann_n \div 5
        IN /\ LabelledIndices = {i \in 0..(ann_n - 1) : i % K = 0} \cup {ann_n - 1}
           /\ \A l \in ann_labels :
                 l.size = IF l.index = ann_n - 1 THEN LargeLabel ELSE SmallLabel

\* C7 amended: the labelled indices are the multiples i of K with
\* i + K <= n-1, together with n-1; the label of n-1 is the larger one, all
\* others the smaller one, and no point is labelled twice.
C7_KthBeforeLastAndLast ==
    (ann_pc = "done") =>
        LET K == IF ann_n < 6 THEN 1 ELSE ann_n \div 5
        IN /\ LabelledIndices =
                 {i \in 0..(ann_n - 1) : i % K = 0 /\ i + K <= ann_n - 1} \cup {ann_n - 1}
           /\ \A l \in ann_labels :
                 l.size = IF l.index = ann_n - 1 THEN LargeLabel ELSE SmallLabel
           /\ Cardinality(ann_labels) = Cardinality(LabelledIndices)

\* C7's case: ten points, stride 2: the loop is over and point 8, a multiple
\* of the stride, carries no label.
C7_Witness ==
    /\ ann_pc = "done" /\ ann_n = 10
    /\ 8 \notin LabelledIndices /\ 9 \in LabelledIndices /\ 6 \in LabelledIndices

\* C8: a total of t > 0 milliseconds is written as t's whole hours and a
\* number of minutes in 0..59 (5,400,000 ms as 1h 30m); a total of 0 or a
\* null total is written as the "No hours recorded" placeholder.
C8_TeamHours ==
    (team_invoked /\ team_answer.kind \in {"ms", "null"}) =>
        /\ pc = "done" /\ Len(team_log) = 1
        /\ IF team_answer.kind = "ms" /\ team_answer.ms > 0
           THEN /\ team_log[1].kind = "hm"
                /\ team_log[1].hours = team_answer.ms \div 3600000
                /\ team_log[1].minutes \in 0..59
                /\ team_answer.ms = 5400000 =>
                      (team_log[1].hours = 1 /\ team_log[1].minutes = 30)
           ELSE team_log[1] = NoHours

=============================================================================
